---- MODULE Spec2Model ----
(***************************************************************************)
(* A model of schemdraw's coordinate transform (schemdraw/transform.py)    *)
(* and drawing segments (schemdraw/segments.py).                           *)
(*                                                                         *)
(* Coordinates are integers and rotation angles are multiples of 90        *)
(* degrees, so that every operation of the engine is exact.  Python values *)
(* of style attributes are written as strings holding the Python literal   *)
(* ("None", "True", "0", "red"), which keeps Python's truthiness visible.  *)
(***************************************************************************)
EXTENDS Integers, Sequences, FiniteSets, TLC

VARIABLES
    tf,     \* the Transform in play (fields of Transform)
    arg,    \* the arguments (pt, ref, pts) of the transform call to make
    estyle, \* the style keyword arguments the element passes to xform and draw
    seg,    \* the local (template) primitive, NoSeg when none is in play
    trail,  \* doreverse/doflip calls made on seg, each with the state before
    ret,    \* <<>> or <<r>>: the last call and the value it returned
    fig,    \* calls emitted on the drawing surface by the last draw
    placed, \* global segments materialised by the layout driver, in order
    here    \* the layout driver's cursor

vars == <<tf, arg, estyle, seg, trail, ret, fig, placed, here>>

(***************************************************************************)
(* Bounds of the model.                                                    *)
(***************************************************************************)
MaxCoord == 1     \* coordinates of input points lie in -MaxCoord..MaxCoord
MaxZoom == 2      \* zoom factors lie in -1..MaxZoom

None == "None"

Coords == (0 - MaxCoord)..MaxCoord
Pts == Coords \X Coords
Shifts == (0..MaxCoord) \X (0..MaxCoord)
Thetas == {0, 90, 180, 270}
Zooms == (0 - 1)..MaxZoom
Refs == {None, "start", "end"}

(***************************************************************************)
(* util.Point: 2D point arithmetic.  The gap marker (nan, nan) that splits *)
(* a path into strokes is the point without coordinates; arithmetic on it  *)
(* yields it again, as arithmetic on nan yields nan.                       *)
(***************************************************************************)
gap == <<>>

Origin == <<0, 0>>

PointAdd(p, q) == IF p = gap \/ q = gap THEN gap ELSE <<p[1] + q[1], p[2] + q[2]>>

PointMul(p, k) == IF p = gap THEN gap ELSE <<p[1] * k, p[2] * k>>

\* cos and sin of a multiple of 90 degrees
Cos(theta) == CASE theta % 360 = 0 -> 1
                [] theta % 360 = 90 -> 0
                [] theta % 360 = 180 -> 0 - 1
                [] theta % 360 = 270 -> 0

Sin(theta) == CASE theta % 360 = 0 -> 0
                [] theta % 360 = 90 -> 1
                [] theta % 360 = 180 -> 0
                [] theta % 360 = 270 -> 0 - 1

rotate(p, theta) ==
    IF p = gap THEN gap
    ELSE <<p[1] * Cos(theta) - p[2] * Sin(theta), p[1] * Sin(theta) + p[2] * Cos(theta)>>

mirrorx(p, centerx) == IF p = gap THEN gap ELSE <<(0 - (p[1] - centerx)) + centerx, p[2]>>

flip(p) == IF p = gap THEN gap ELSE <<p[1], 0 - p[2]>>

(***************************************************************************)
(* Transform (transform.py).                                               *)
(***************************************************************************)
\* Transform.__init__: the four parameters are stored as given.
TransformInit(theta, globalshift, localshift, zoom) ==
    [theta |-> theta, shift |-> globalshift, localshift |-> localshift, zoom |-> zoom]

Transforms ==
    {TransformInit(th, g, l, z) : th \in Thetas, g \in Shifts, l \in Shifts, z \in Zooms}

lshift_EndNotDoubled(T, ref) ==
    CASE ref = "start" -> Origin
      [] ref = "end" -> T.localshift
      [] OTHER -> T.localshift

\* The local shift transform() picks for a reference mode (the dict lookup).
lshift(T, ref) ==
    CASE ref = "start" -> Origin
      [] ref = "end" -> PointMul(T.localshift, 2)
      [] OTHER -> T.localshift

transform_ShiftBeforeRotate(T, pt, ref) ==
    rotate(PointAdd(PointMul(PointAdd(pt, lshift(T, ref)), T.zoom), T.shift), T.theta)

transform_ScaleByTheta(T, pt, ref) ==
    PointAdd(rotate(PointMul(PointAdd(pt, lshift(T, ref)), T.theta), T.theta), T.shift)

\* Transform.transform
transform(T, pt, ref) ==
    PointAdd(rotate(PointMul(PointAdd(pt, lshift(T, ref)), T.zoom), T.theta), T.shift)

\* The entries of lst without the later copies of an entry
RECURSIVE Distinct(_)
Distinct(lst) ==
    IF lst = <<>> THEN <<>>
    ELSE LET front == Distinct(SubSeq(lst, 1, Len(lst) - 1))
             last == lst[Len(lst)]
         IN IF \E i \in 1..Len(front) : front[i] = last THEN front ELSE Append(front, last)

\* the points are collected without their repetitions
transform_array_Deduplicated(T, pts) ==
    LET d == Distinct(pts) IN [i \in 1..Len(d) |-> transform(T, d[i], None)]

\* Transform.transform_array
transform_array(T, pts) == [i \in 1..Len(pts) |-> transform(T, pts[i], None)]

(***************************************************************************)
(* Keyword arguments.  A **kwargs / **style dictionary is a record over    *)
(* StyleKeys whose absent keys hold Absent.                                *)
(***************************************************************************)
Absent == "<absent>"

StyleKeys == {"color", "fill", "lw", "ls", "capstyle", "joinstyle", "zorder"}

NoKw == [k \in StyleKeys |-> Absent]

\* kwargs.get(key, default)
Get(kw, key, default) == IF kw[key] = Absent THEN default ELSE kw[key]

\* params.update(style): the keys of style replace those of params.
Update(params, style) ==
    [k \in StyleKeys |-> IF style[k] # Absent THEN style[k] ELSE params[k]]

\* Python truthiness of a style value
Truthy(v) == v \notin {None, "False", "0", ""}

(***************************************************************************)
(* Operations on a Transform.                                              *)
(***************************************************************************)
NoSeg == [kind |-> "none"]

NoArg == [pt |-> Origin, ref |-> None, pts |-> <<>>]

\* tf.transform(arg.pt, arg.ref)
CallTransform ==
    /\ ret' = <<[op |-> "transform", pt |-> arg.pt, ref |-> arg.ref,
                 val |-> transform(tf, arg.pt, arg.ref)]>>
    /\ UNCHANGED <<tf, arg, estyle, seg, trail, fig, placed, here>>

\* The state after Transform(theta, globalshift, localshift, zoom).
InitTransform ==
    /\ \E th \in Thetas, g \in Shifts, l \in Shifts, z \in Zooms :
          tf = TransformInit(th, g, l, z)
    /\ arg \in [pt : Pts, ref : Refs, pts : {<<>>}]
    /\ estyle = NoKw
    /\ seg = NoSeg
    /\ trail = <<>>
    /\ ret = <<>>
    /\ fig = <<>>
    /\ placed = <<>>
    /\ here = Origin

NextTransform == CallTransform

SpecTransform == InitTransform /\ [][NextTransform]_vars

(***************************************************************************)
(* Constructors of the segment classes (segments.py).                      *)
(***************************************************************************)
\* Segment.__init__
Segment(path, kw) ==
    [kind |-> "Segment", path |-> path,
     zorder |-> Get(kw, "zorder", None), color |-> Get(kw, "color", None),
     fill |-> Get(kw, "fill", None), lw |-> Get(kw, "lw", None),
     ls |-> Get(kw, "ls", None), capstyle |-> Get(kw, "capstyle", None),
     joinstyle |-> Get(kw, "joinstyle", None)]

\* SegmentText.__init__ (align, font, rotation and rotation_mode not passed)
SegmentText(pos, label, kw) ==
    [kind |-> "SegmentText", xy |-> pos, text |-> label,
     align |-> None, font |-> None, fontsize |-> 14,
     color |-> Get(kw, "color", None), rotation |-> None, rotation_mode |-> None,
     zorder |-> Get(kw, "zorder", None)]

\* SegmentPoly.__init__ (closed is kwargs.get('closed', None))
SegmentPoly(verts, closed, cornerradius, kw) ==
    [kind |-> "SegmentPoly", verts |-> verts, closed |-> closed,
     cornerradius |-> cornerradius,
     color |-> Get(kw, "color", None), fill |-> Get(kw, "fill", None),
     joinstyle |-> Get(kw, "joinstyle", None), capstyle |-> Get(kw, "capstyle", None),
     zorder |-> Get(kw, "zorder", None), lw |-> Get(kw, "lw", None),
     ls |-> Get(kw, "ls", None)]

\* SegmentCircle.__init__ (ref is kwargs.get('ref', None))
SegmentCircle(center, radius, ref, kw) ==
    [kind |-> "SegmentCircle", center |-> center, radius |-> radius,
     zorder |-> Get(kw, "zorder", None), color |-> Get(kw, "color", None),
     fill |-> Get(kw, "fill", None), lw |-> Get(kw, "lw", None),
     ls |-> Get(kw, "ls", None), endref |-> ref]

\* SegmentArrow.__init__
SegmentArrow(tail, head, headwidth, headlength, ref, kw) ==
    [kind |-> "SegmentArrow", tail |-> tail, head |-> head,
     zorder |-> Get(kw, "zorder", None),
     headwidth |-> headwidth, headlength |-> headlength,
     color |-> Get(kw, "color", None), lw |-> Get(kw, "lw", None), endref |-> ref]

\* SegmentArc.__init__
SegmentArc(center, width, height, theta1, theta2, arrow, angle, kw) ==
    [kind |-> "SegmentArc", center |-> center, width |-> width, height |-> height,
     theta1 |-> theta1, theta2 |-> theta2, arrow |-> arrow, angle |-> angle,
     color |-> Get(kw, "color", None), lw |-> Get(kw, "lw", None),
     ls |-> Get(kw, "ls", None), zorder |-> Get(kw, "zorder", None)]

(***************************************************************************)
(* doreverse and doflip of each class.                                     *)
(***************************************************************************)
\* lst[::-1]
Reversed(lst) == [i \in 1..Len(lst) |-> lst[Len(lst) + 1 - i]]

\* {None: None, 'start': 'end', 'end': 'start'}.get(endref)
SwapRef(endref) ==
    CASE endref = "start" -> "end"
      [] endref = "end" -> "start"
      [] OTHER -> None

\* {'cw': 'ccw', 'ccw': 'cw'}.get(arrow, None)
SwapArrow(arrow) ==
    CASE arrow = "cw" -> "ccw"
      [] arrow = "ccw" -> "cw"
      [] OTHER -> None

Segment_doreverse_KeepOrder(s, centerx) ==
    [s EXCEPT !.path = [i \in 1..Len(s.path) |-> mirrorx(s.path[i], centerx)]]

Segment_doreverse(s, centerx) ==
    [s EXCEPT !.path = [i \in 1..Len(s.path) |-> mirrorx(Reversed(s.path)[i], centerx)]]

\* the path is flipped and its order reversed
Segment_doflip_Reversing(s) ==
    [s EXCEPT !.path = [i \in 1..Len(s.path) |-> flip(Reversed(s.path)[i])]]

Segment_doflip(s) ==
    [s EXCEPT !.path = [i \in 1..Len(s.path) |-> flip(s.path[i])]]

SegmentText_doreverse(s, centerx) == [s EXCEPT !.xy = mirrorx(s.xy, centerx)]

SegmentText_doflip(s) == [s EXCEPT !.xy = flip(s.xy)]

SegmentPoly_doreverse(s, centerx) ==
    [s EXCEPT !.verts = [i \in 1..Len(s.verts) |-> mirrorx(Reversed(s.verts)[i], centerx)]]

SegmentPoly_doflip(s) ==
    [s EXCEPT !.verts = [i \in 1..Len(s.verts) |-> flip(s.verts[i])]]

SegmentCircle_doreverse(s, centerx) ==
    [s EXCEPT !.center = mirrorx(s.center, centerx), !.endref = SwapRef(s.endref)]

SegmentCircle_doflip(s) == [s EXCEPT !.center = flip(s.center)]

SegmentArrow_doreverse(s, centerx) ==
    [s EXCEPT !.tail = mirrorx(s.tail, centerx), !.head = mirrorx(s.head, centerx),
              !.endref = SwapRef(s.endref)]

SegmentArrow_doflip(s) == [s EXCEPT !.tail = flip(s.tail), !.head = flip(s.head)]

\* theta1 assigned first and then read back, instead of the tuple assignment
SegmentArc_doreverse_Sequential(s, centerx) ==
    [s EXCEPT !.center = mirrorx(s.center, centerx),
              !.theta1 = 180 - s.theta2, !.theta2 = 180 - (180 - s.theta2),
              !.arrow = SwapArrow(s.arrow)]

\* theta2 assigned first and then read back, instead of the tuple assignment
SegmentArc_doreverse_Theta2First(s, centerx) ==
    [s EXCEPT !.center = mirrorx(s.center, centerx),
              !.theta2 = 180 - s.theta1, !.theta1 = 180 - (180 - s.theta1),
              !.arrow = SwapArrow(s.arrow)]

\* the arrow tag is left as it was
SegmentArc_doreverse_KeepArrow(s, centerx) ==
    [s EXCEPT !.center = mirrorx(s.center, centerx),
              !.theta1 = 180 - s.theta2, !.theta2 = 180 - s.theta1]

SegmentArc_doreverse(s, centerx) ==
    [s EXCEPT !.center = mirrorx(s.center, centerx),
              !.theta1 = 180 - s.theta2, !.theta2 = 180 - s.theta1,
              !.arrow = SwapArrow(s.arrow)]

\* theta1 assigned first and then read back, instead of the tuple assignment
SegmentArc_doflip_Sequential(s) ==
    [s EXCEPT !.center = flip(s.center),
              !.theta1 = 0 - s.theta2, !.theta2 = 0 - (0 - s.theta2),
              !.arrow = SwapArrow(s.arrow)]

\* the angles are negated and not swapped
SegmentArc_doflip_NegateOnly(s) ==
    [s EXCEPT !.center = flip(s.center),
              !.theta1 = 0 - s.theta1, !.theta2 = 0 - s.theta2,
              !.arrow = SwapArrow(s.arrow)]

SegmentArc_doflip(s) ==
    [s EXCEPT !.center = flip(s.center),
              !.theta1 = 0 - s.theta2, !.theta2 = 0 - s.theta1,
              !.arrow = SwapArrow(s.arrow)]

\* s.doreverse(centerx), dispatched on the class of s
doreverse(s, centerx) ==
    CASE s.kind = "Segment" -> Segment_doreverse(s, centerx)
      [] s.kind = "SegmentText" -> SegmentText_doreverse(s, centerx)
      [] s.kind = "SegmentPoly" -> SegmentPoly_doreverse(s, centerx)
      [] s.kind = "SegmentCircle" -> SegmentCircle_doreverse(s, centerx)
      [] s.kind = "SegmentArrow" -> SegmentArrow_doreverse(s, centerx)
      [] s.kind = "SegmentArc" -> SegmentArc_doreverse(s, centerx)

\* s.doflip(), dispatched on the class of s
doflip(s) ==
    CASE s.kind = "Segment" -> Segment_doflip(s)
      [] s.kind = "SegmentText" -> SegmentText_doflip(s)
      [] s.kind = "SegmentPoly" -> SegmentPoly_doflip(s)
      [] s.kind = "SegmentCircle" -> SegmentCircle_doflip(s)
      [] s.kind = "SegmentArrow" -> SegmentArrow_doflip(s)
      [] s.kind = "SegmentArc" -> SegmentArc_doflip(s)

(***************************************************************************)
(* Primitives in local space and the mirror operations on them.            *)
(***************************************************************************)
MaxLen == 4       \* a path or vertex list holds at most MaxLen points
MaxOps == 3       \* at most MaxOps doreverse/doflip calls on one primitive

PathPts == {<<0, 0>>, <<1, 0>>, <<1, 1>>}

\* Point lists of 1..MaxLen points
PointLists == UNION {[1..n -> PathPts] : n \in 1..MaxLen}

\* Paths with one gap marker strictly inside, as the element catalog writes them
GapPaths ==
    UNION {{[p EXCEPT ![g] = gap] : g \in 2..(Len(p) - 1)} : p \in PointLists}

Paths == PointLists \cup GapPaths

Axes == {0, 1}
ArcAngles == {<<35, 0 - 35>>, <<270, 90>>, <<0, 180>>}
ArrowTags == {None, "cw", "ccw"}

LocalSegments ==
    {Segment(p, NoKw) : p \in Paths}
    \cup {SegmentPoly(v, None, 0, NoKw) : v \in PointLists}
    \cup {SegmentText(p, "A", NoKw) : p \in Pts}
    \cup {SegmentCircle(c, 1, r, NoKw) : c \in Pts, r \in Refs}
    \cup {SegmentArrow(t, h, None, None, r, NoKw) : t \in Shifts, h \in Pts, r \in Refs}
    \cup {SegmentArc(c, 2, 2, a[1], a[2], w, 0, NoKw) :
             c \in Shifts, a \in ArcAngles, w \in ArrowTags}

\* seg.doreverse(centerx)
DoReverse(centerx) ==
    /\ Len(trail) < MaxOps
    /\ trail' = Append(trail, [op |-> "doreverse", centerx |-> centerx, before |-> seg])
    /\ seg' = doreverse(seg, centerx)
    /\ UNCHANGED <<tf, arg, estyle, ret, fig, placed, here>>

\* seg.doflip()
DoFlip ==
    /\ Len(trail) < MaxOps
    /\ trail' = Append(trail, [op |-> "doflip", centerx |-> 0, before |-> seg])
    /\ seg' = doflip(seg)
    /\ UNCHANGED <<tf, arg, estyle, ret, fig, placed, here>>

\* The ref keywords with which s can have been constructed: the one it has
\* stored as endref or, for SegmentArc, whose __init__ reads no 'ref', any.
RefKeywords(s) ==
    CASE s.kind \in {"SegmentCircle", "SegmentArrow"} -> {s.endref}
      [] s.kind = "SegmentArc" -> Refs
      [] OTHER -> {None}

\* arg.ref is the ref keyword seg was constructed with
InitMirror ==
    /\ seg \in LocalSegments
    /\ tf = TransformInit(0, Origin, Origin, 1)
    /\ arg \in {[NoArg EXCEPT !.ref = r] : r \in RefKeywords(seg)}
    /\ estyle = NoKw
    /\ trail = <<>>
    /\ ret = <<>>
    /\ fig = <<>>
    /\ placed = <<>>
    /\ here = Origin

NextMirror ==
    \/ \E centerx \in Axes : DoReverse(centerx)
    \/ DoFlip

SpecMirror == InitMirror /\ [][NextMirror]_vars

(***************************************************************************)
(* get_bbox: the local bounding box (xmin, ymin, xmax, ymax).  A float is  *)
(* <<t>>, t its value in tenths of a drawing unit, or nan.                 *)
(***************************************************************************)
nan == <<>>

\* p[k] as a float; both coordinates of the gap marker are nan
Coord(p, k) == IF p = gap THEN nan ELSE <<10 * p[k]>>

\* a < b on floats: False when either side is nan
Less(a, b) == a # nan /\ b # nan /\ a[1] < b[1]

\* a <= b on floats: False when either side is nan
LessEq(a, b) == a # nan /\ b # nan /\ a[1] <= b[1]

\* min(lst): the first entry unless a later one is less
RECURSIVE min(_)
min(lst) ==
    IF Len(lst) = 1 THEN lst[1]
    ELSE LET m == min(SubSeq(lst, 1, Len(lst) - 1))
         IN IF Less(lst[Len(lst)], m) THEN lst[Len(lst)] ELSE m

\* max(lst): the first entry unless a later one is greater
RECURSIVE max(_)
max(lst) ==
    IF Len(lst) = 1 THEN lst[1]
    ELSE LET m == max(SubSeq(lst, 1, Len(lst) - 1))
         IN IF Less(m, lst[Len(lst)]) THEN lst[Len(lst)] ELSE m

BBox(xmin, ymin, xmax, ymax) == <<xmin, ymin, xmax, ymax>>

\* the number a head width stands for, in tenths
HeadWidths == {".3", "1"}
Tenths(v) == CASE v = ".3" -> 3 [] v = "1" -> 10

\* the box runs from the first point of the path to its last
Segment_get_bbox_EndToEnd(s) ==
    BBox(Coord(s.path[1], 1), Coord(s.path[1], 2),
         Coord(s.path[Len(s.path)], 1), Coord(s.path[Len(s.path)], 2))

\* Segment.get_bbox
Segment_get_bbox(s) ==
    LET x == [i \in 1..Len(s.path) |-> Coord(s.path[i], 1)]
        y == [i \in 1..Len(s.path) |-> Coord(s.path[i], 2)]
    IN BBox(min(x), min(y), max(x), max(y))

\* SegmentPoly.get_bbox
SegmentPoly_get_bbox(s) ==
    LET x == [i \in 1..Len(s.verts) |-> Coord(s.verts[i], 1)]
        y == [i \in 1..Len(s.verts) |-> Coord(s.verts[i], 2)]
    IN BBox(min(x), min(y), max(x), max(y))

\* SegmentCircle.get_bbox
SegmentCircle_get_bbox(s) ==
    LET xmin == <<10 * (s.center[1] - s.radius)>>
        xmax == <<10 * (s.center[1] + s.radius)>>
        ymin == <<10 * (s.center[2] - s.radius)>>
        ymax == <<10 * (s.center[2] + s.radius)>>
    IN BBox(xmin, ymin, xmax, ymax)

\* SegmentArrow.get_bbox
SegmentArrow_get_bbox(s) ==
    LET hw == IF Truthy(s.headwidth) THEN Tenths(s.headwidth) ELSE 1
        xmin == min(<<Coord(s.tail, 1), Coord(s.head, 1)>>)
        ymin == min(<<Coord(s.tail, 2), Coord(s.head, 2)>>)
        xmax == max(<<Coord(s.tail, 1), Coord(s.head, 1)>>)
        ymax == max(<<Coord(s.tail, 2), Coord(s.head, 2)>>)
    IN BBox(xmin, <<ymin[1] - hw>>, xmax, <<ymax[1] + hw>>)

\* s.get_bbox(), dispatched on the class of s
get_bbox(s) ==
    CASE s.kind = "Segment" -> Segment_get_bbox(s)
      [] s.kind = "SegmentPoly" -> SegmentPoly_get_bbox(s)
      [] s.kind = "SegmentCircle" -> SegmentCircle_get_bbox(s)
      [] s.kind = "SegmentArrow" -> SegmentArrow_get_bbox(s)

\* The classes whose box is min/max arithmetic on their fields; the box of a
\* SegmentText is measured text and that of a SegmentArc a sampled ellipse.
BoxedKinds == {"Segment", "SegmentPoly", "SegmentCircle", "SegmentArrow"}

\* seg.get_bbox()
GetBBox ==
    /\ seg.kind \in BoxedKinds
    /\ ret' = <<[op |-> "get_bbox", val |-> get_bbox(seg)]>>
    /\ UNCHANGED <<tf, arg, estyle, seg, trail, fig, placed, here>>

BoxedSegments ==
    {s \in LocalSegments : s.kind = "Segment" /\ Len(s.path) < MaxLen}
    \cup {s \in LocalSegments : s.kind = "SegmentPoly" /\ Len(s.verts) < MaxLen}
    \cup {s \in LocalSegments : s.kind = "SegmentCircle"}
    \cup {SegmentArrow(t, h, w, None, None, NoKw) :
             t \in Shifts, h \in Pts, w \in HeadWidths \cup {None}}

InitBBox ==
    /\ seg \in BoxedSegments
    /\ tf = TransformInit(0, Origin, Origin, 1)
    /\ arg = NoArg
    /\ estyle = NoKw
    /\ trail = <<>>
    /\ ret = <<>>
    /\ fig = <<>>
    /\ placed = <<>>
    /\ here = Origin

NextBBox ==
    \/ \E centerx \in Axes : DoReverse(centerx)
    \/ DoFlip
    \/ GetBBox

SpecBBox == InitBBox /\ [][NextBBox]_vars

(***************************************************************************)
(* Transforming a list of points: every path under Transforms of every     *)
(* rotation and zoom.                                                      *)
(***************************************************************************)
\* Transform.transform_array, called as tf.transform_array(arg.pts)
CallTransformArray ==
    /\ ret' = <<[op |-> "transform_array", pts |-> arg.pts,
                 val |-> transform_array(tf, arg.pts)]>>
    /\ UNCHANGED <<tf, arg, estyle, seg, trail, fig, placed, here>>

ArrayTransforms ==
    {TransformInit(th, g, l, z) :
        th \in Thetas, g \in {Origin, <<1, 0>>}, l \in {Origin, <<0, 1>>}, z \in Zooms}

InitArray ==
    /\ tf \in ArrayTransforms
    /\ arg \in [pt : {Origin}, ref : {None}, pts : Paths]
    /\ estyle = NoKw
    /\ seg = NoSeg
    /\ trail = <<>>
    /\ ret = <<>>
    /\ fig = <<>>
    /\ placed = <<>>
    /\ here = Origin

NextArray == CallTransformArray

SpecArray == InitArray /\ [][NextArray]_vars

(***************************************************************************)
(* xform: the copy of a primitive in global space.                         *)
(***************************************************************************)
\* The params dictionary xform builds from the primitive's own attributes;
\* keys maps each style key the class puts in it.
Params(s, keys) == [k \in StyleKeys |-> IF k \in keys THEN s[k] ELSE Absent]

\* Segment.xform
Segment_xform(s, T, style) ==
    Segment(transform_array(T, s.path), Update(Params(s, StyleKeys), style))

\* SegmentText.xform
SegmentText_xform(s, T, style) ==
    SegmentText(transform(T, s.xy, None), s.text,
                Update(Params(s, {"color", "zorder"}), style))

\* SegmentPoly.xform (closed is not among the params it forwards)
SegmentPoly_xform(s, T, style) ==
    SegmentPoly(transform_array(T, s.verts), None, s.cornerradius,
                Update(Params(s, StyleKeys), style))

\* SegmentCircle.xform
SegmentCircle_xform(s, T, style) ==
    SegmentCircle(transform(T, s.center, s.endref), s.radius, s.endref,
                  Update(Params(s, {"zorder", "color", "fill", "lw", "ls"}), style))

\* SegmentArrow.xform
SegmentArrow_xform(s, T, style) ==
    SegmentArrow(transform(T, s.tail, s.endref), transform(T, s.head, s.endref),
                 s.headwidth, s.headlength, s.endref,
                 Update(Params(s, {"zorder", "color", "lw"}), style))

\* SegmentArc.xform (arrow is not among the params it forwards)
SegmentArc_xform(s, T, style) ==
    SegmentArc(transform(T, s.center, None), s.width * T.zoom, s.height * T.zoom,
               s.theta1, s.theta2, None, s.angle + T.theta,
               Update(Params(s, {"color", "lw", "ls", "zorder"}), style))

\* s.xform(T, **style), dispatched on the class of s
xform(s, T, style) ==
    CASE s.kind = "Segment" -> Segment_xform(s, T, style)
      [] s.kind = "SegmentText" -> SegmentText_xform(s, T, style)
      [] s.kind = "SegmentPoly" -> SegmentPoly_xform(s, T, style)
      [] s.kind = "SegmentCircle" -> SegmentCircle_xform(s, T, style)
      [] s.kind = "SegmentArrow" -> SegmentArrow_xform(s, T, style)
      [] s.kind = "SegmentArc" -> SegmentArc_xform(s, T, style)

(***************************************************************************)
(* draw: the call a primitive emits on the drawing surface.                *)
(***************************************************************************)
\* own if own is not None else style.get(key, default)
OrNotNone(own, style, key, default) ==
    IF own # None THEN own ELSE Get(style, key, default)

\* own if own else style.get(key, default)
OrTruthy(own, style, key, default) ==
    IF Truthy(own) THEN own ELSE Get(style, key, default)

\* only the two ends of the path are compared
HasDuplicates_EndsOnly(path) ==
    Len(path) > 1 /\ path[1] # gap /\ path[1] = path[Len(path)]

\* len(tlist) != len(set(tlist)): two entries of the path are equal.  Two gap
\* markers never are, their coordinates being nan.
HasDuplicates(path) ==
    \E i, j \in 1..Len(path) : i < j /\ path[i] # gap /\ path[i] = path[j]

\* The fill Segment.draw hands to the surface.
SegmentFill(fill, color, path) ==
    IF Truthy(fill)
    THEN IF ~HasDuplicates(path) THEN None
         ELSE IF fill = "True" THEN color
         ELSE fill
    ELSE fill

\* color if fill is True else None if fill is False else fill
ShapeFill(fill, color) ==
    IF fill = "True" THEN color ELSE IF fill = "False" THEN None ELSE fill

\* Segment.draw: the fig.plot call
Segment_draw(s, T, style) ==
    LET path == transform_array(T, s.path)
        color == OrTruthy(s.color, style, "color", "black")
        fill == OrNotNone(s.fill, style, "fill", None)
    IN [fn |-> "plot", path |-> path, color |-> color,
        fill |-> SegmentFill(fill, color, path),
        ls |-> OrTruthy(s.ls, style, "ls", "-"),
        lw |-> OrTruthy(s.lw, style, "lw", "2"),
        capstyle |-> OrTruthy(s.capstyle, style, "capstyle", "round"),
        joinstyle |-> OrTruthy(s.joinstyle, style, "joinstyle", "round"),
        zorder |-> OrNotNone(s.zorder, style, "zorder", "2")]

\* SegmentText.draw: the fig.text call
SegmentText_draw(s, T, style) ==
    LET xy == transform(T, s.xy, None)
    IN [fn |-> "text", text |-> s.text, x |-> xy[1], y |-> xy[2],
        color |-> OrTruthy(s.color, style, "color", "black"),
        fontsize |-> s.fontsize, fontfamily |-> "sans-serif",
        rotation |-> 0, rotation_mode |-> "anchor",
        halign |-> "center", valign |-> "center",
        zorder |-> OrNotNone(s.zorder, style, "zorder", "3")]

\* SegmentPoly.draw: the fig.poly call (cornerradius is 0, no corner is rounded)
SegmentPoly_draw(s, T, style) ==
    LET color == OrTruthy(s.color, style, "color", "black")
        fill == OrNotNone(s.fill, style, "fill", None)
    IN [fn |-> "poly", verts |-> transform_array(T, s.verts),
        closed |-> IF s.closed # None THEN s.closed ELSE "True",
        color |-> color, fill |-> ShapeFill(fill, color),
        lw |-> OrTruthy(s.lw, style, "lw", "2"),
        ls |-> OrTruthy(s.ls, style, "ls", "-"),
        capstyle |-> OrTruthy(s.capstyle, style, "capstyle", "round"),
        joinstyle |-> OrTruthy(s.joinstyle, style, "joinstyle", "round"),
        zorder |-> OrNotNone(s.zorder, style, "zorder", "1")]

\* SegmentCircle.draw: the fig.circle call
SegmentCircle_draw(s, T, style) ==
    LET color == OrTruthy(s.color, style, "color", "black")
        fill == OrNotNone(s.fill, style, "fill", None)
    IN [fn |-> "circle", center |-> transform(T, s.center, s.endref),
        radius |-> T.zoom * s.radius,
        color |-> color, fill |-> ShapeFill(fill, color),
        lw |-> OrTruthy(s.lw, style, "lw", "2"),
        ls |-> OrTruthy(s.ls, style, "ls", "-"),
        zorder |-> OrNotNone(s.zorder, style, "zorder", "1")]

\* SegmentArrow.draw: the fig.arrow call
SegmentArrow_draw(s, T, style) ==
    LET tail == transform(T, s.tail, s.endref)
        head == transform(T, s.head, s.endref)
    IN [fn |-> "arrow", x |-> tail[1], y |-> tail[2],
        dx |-> head[1] - tail[1], dy |-> head[2] - tail[2],
        headwidth |-> IF Truthy(s.headwidth) THEN s.headwidth ELSE ".2",
        headlength |-> IF Truthy(s.headlength) THEN s.headlength ELSE ".2",
        color |-> OrTruthy(s.color, style, "color", "black"),
        lw |-> OrTruthy(s.lw, style, "lw", "2"),
        zorder |-> OrNotNone(s.zorder, style, "zorder", "1")]

\* SegmentArc.draw: the fig.arc call
SegmentArc_draw(s, T, style) ==
    [fn |-> "arc", center |-> transform(T, s.center, None),
     width |-> s.width * T.zoom, height |-> s.height * T.zoom,
     theta1 |-> s.theta1, theta2 |-> s.theta2, angle |-> s.angle + T.theta,
     color |-> OrTruthy(s.color, style, "color", "black"),
     lw |-> OrTruthy(s.lw, style, "lw", "2"),
     ls |-> OrTruthy(s.ls, style, "ls", "-"),
     zorder |-> OrNotNone(s.zorder, style, "zorder", "1"),
     arrow |-> s.arrow]

\* s.draw(fig, T, **style), dispatched on the class of s
draw(s, T, style) ==
    CASE s.kind = "Segment" -> Segment_draw(s, T, style)
      [] s.kind = "SegmentText" -> SegmentText_draw(s, T, style)
      [] s.kind = "SegmentPoly" -> SegmentPoly_draw(s, T, style)
      [] s.kind = "SegmentCircle" -> SegmentCircle_draw(s, T, style)
      [] s.kind = "SegmentArrow" -> SegmentArrow_draw(s, T, style)
      [] s.kind = "SegmentArc" -> SegmentArc_draw(s, T, style)

(***************************************************************************)
(* Placing and drawing one primitive.                                      *)
(***************************************************************************)
\* Values a primitive is constructed with, per style key
OwnValues ==
    [color |-> {"red"}, fill |-> {"True", "False", "blue"}, lw |-> {"0", "3"},
     ls |-> {":"}, capstyle |-> {"butt"}, joinstyle |-> {"miter"},
     zorder |-> {"0", "5"}]

\* Values the element passes as style, per style key
PassedValues ==
    [color |-> {"green"}, fill |-> {"True", "yellow"}, lw |-> {"1"},
     ls |-> {"--"}, capstyle |-> {"square"}, joinstyle |-> {"bevel"},
     zorder |-> {"7"}]

\* No key, one key, or every key
Profiles(values) ==
    {NoKw}
    \cup UNION {{[NoKw EXCEPT ![k] = v] : v \in values[k]} : k \in StyleKeys}
    \cup {[k \in StyleKeys |-> CHOOSE v \in values[k] : TRUE]}

OwnStyles == Profiles(OwnValues)
PassedStyles == Profiles(PassedValues)

\* Own styles that bear on the fill of a path
FillStyles == {kw \in OwnStyles : \A k \in StyleKeys \ {"fill", "color"} : kw[k] = Absent}

DrawTransforms ==
    {TransformInit(th, g, l, z) :
        th \in {0, 90}, g \in {Origin, <<1, 0>>}, l \in {Origin, <<1, 0>>}, z \in 1..MaxZoom}

StyledSegments ==
    {Segment(p, kw) :
        p \in {<<Origin, <<1, 0>>>>, <<Origin, <<1, 0>>, <<1, 1>>, Origin>>}, kw \in OwnStyles}
    \cup {SegmentPoly(v, c, 0, kw) :
             v \in {<<Origin, <<1, 0>>, <<1, 1>>>>}, c \in {None, "False"}, kw \in OwnStyles}
    \cup {SegmentText(p, "A", kw) : p \in {<<1, 0>>}, kw \in OwnStyles}
    \cup {SegmentCircle(c, 1, r, kw) : c \in {<<1, 0>>}, r \in Refs, kw \in OwnStyles}
    \cup {SegmentArrow(t, h, w, w, r, kw) :
             t \in {Origin}, h \in {Origin, <<1, 0>>}, w \in {None, ".3"},
             r \in Refs, kw \in OwnStyles}
    \cup {SegmentArc(c, 2, 2, a[1], a[2], w, 0, kw) :
             c \in {<<1, 0>>}, a \in {<<35, 0 - 35>>}, w \in ArrowTags, kw \in OwnStyles}

\* the primitive is transformed in place
Xform_InPlace ==
    /\ seg' = xform(seg, tf, estyle)
    /\ ret' = <<[op |-> "xform", copy |-> seg']>>
    /\ UNCHANGED <<tf, arg, estyle, trail, fig, placed, here>>

\* seg.xform(tf, **estyle)
Xform ==
    /\ ret' = <<[op |-> "xform", copy |-> xform(seg, tf, estyle)]>>
    /\ UNCHANGED <<tf, arg, estyle, seg, trail, fig, placed, here>>

\* seg.draw(fig, tf, **estyle)
Draw ==
    /\ fig' = <<draw(seg, tf, estyle)>>
    /\ UNCHANGED <<tf, arg, estyle, seg, trail, ret, placed, here>>

InitDraw ==
    /\ seg \in StyledSegments
    /\ tf \in DrawTransforms
    /\ estyle \in PassedStyles
    /\ arg = NoArg
    /\ trail = <<>>
    /\ ret = <<>>
    /\ fig = <<>>
    /\ placed = <<>>
    /\ here = Origin

NextDraw == Xform \/ Draw

SpecDraw == InitDraw /\ [][NextDraw]_vars

(***************************************************************************)
(* Placement calls on one template primitive and one Transform: xform,     *)
(* draw, get_bbox, transform and transform_array in any order.             *)
(***************************************************************************)
FrameStyles == {NoKw, [k \in StyleKeys |-> CHOOSE v \in OwnValues[k] : TRUE]}

FrameSegments ==
    {Segment(p, kw) :
        p \in {<<Origin, <<1, 0>>, <<1, 1>>>>, <<Origin, <<1, 0>>, gap, <<1, 1>>, <<0, 1>>>>},
        kw \in FrameStyles}
    \cup {SegmentPoly(v, c, 0, kw) :
             v \in {<<Origin, <<1, 0>>, <<1, 1>>>>}, c \in {"False"}, kw \in FrameStyles}
    \cup {SegmentText(p, "A", kw) : p \in {<<1, 0>>}, kw \in FrameStyles}
    \cup {SegmentCircle(c, 1, r, kw) : c \in {<<1, 0>>}, r \in Refs, kw \in FrameStyles}
    \cup {SegmentArrow(t, h, w, w, r, kw) :
             t \in {Origin}, h \in {<<1, 0>>}, w \in {None, ".3"},
             r \in {"end"}, kw \in FrameStyles}
    \cup {SegmentArc(c, 2, 2, a[1], a[2], w, 0, kw) :
             c \in {<<1, 0>>}, a \in {<<35, 0 - 35>>}, w \in ArrowTags, kw \in FrameStyles}

InitFrame ==
    /\ seg \in FrameSegments
    /\ tf \in DrawTransforms
    /\ estyle \in {NoKw, [k \in StyleKeys |-> CHOOSE v \in PassedValues[k] : TRUE]}
    /\ arg \in [pt : {<<1, 0>>, <<0, 1>>}, ref : Refs, pts : {<<Origin, <<1, 0>>, Origin>>}]
    /\ trail = <<>>
    /\ ret = <<>>
    /\ fig = <<>>
    /\ placed = <<>>
    /\ here = Origin

NextFrame ==
    \/ Xform
    \/ Draw
    \/ GetBBox
    \/ CallTransform
    \/ CallTransformArray

SpecFrame == InitFrame /\ [][NextFrame]_vars

(***************************************************************************)
(* Drawing the copy xform returned: the globalized copy is drawn with the  *)
(* identity Transform, the template with the Transform itself.             *)
(***************************************************************************)
\* Transform(0, (0, 0)): no rotation, no shift, zoom 1
Identity == TransformInit(0, Origin, Origin, 1)

\* ret[1].copy.draw(fig, Identity, **estyle), on the copy a seg.xform call returned
DrawCopy ==
    /\ Len(ret) = 1
    /\ ret[1].op = "xform"
    /\ fig' = <<draw(ret[1].copy, Identity, estyle)>>
    /\ UNCHANGED <<tf, arg, estyle, seg, trail, ret, placed, here>>

NextCopy ==
    \/ Xform
    \/ Draw
    \/ DrawCopy

SpecCopy == InitFrame /\ [][NextCopy]_vars

(***************************************************************************)
(* Drawing a path with a fill: every path, under the styles and Transforms *)
(* that bear on its fill.                                                  *)
(***************************************************************************)
FillTransforms ==
    {TransformInit(0, Origin, Origin, 1), TransformInit(90, <<1, 0>>, <<1, 0>>, 1),
     TransformInit(0, Origin, Origin, MaxZoom)}

FillPassed == {kw \in PassedStyles : \A k \in StyleKeys \ {"fill", "color"} : kw[k] = Absent}

InitFill ==
    /\ seg \in {Segment(p, kw) : p \in Paths, kw \in FillStyles}
    /\ tf \in FillTransforms
    /\ estyle \in FillPassed
    /\ arg = NoArg
    /\ trail = <<>>
    /\ ret = <<>>
    /\ fig = <<>>
    /\ placed = <<>>
    /\ here = Origin

NextFill == Draw

SpecFill == InitFill /\ [][NextFill]_vars

(***************************************************************************)
(* The layout driver placing straight two-terminal lines one after the     *)
(* other: each is placed by a Transform whose global shift is the cursor,  *)
(* and the cursor moves to the transformed end of the line.                *)
(***************************************************************************)
MaxPlaced == 3    \* at most MaxPlaced lines are placed in one drawing

\* Local paths of straight lines along the local x axis
StraightPaths == {<<Origin, <<n, 0>>>> : n \in 1..2}

Segment_end_First(s) == s.path[1]

\* Segment.end
Segment_end(s) == s.path[Len(s.path)]

\* Place a line with local path p at the cursor.
Place(p) ==
    LET line == Segment(p, NoKw)
        T == TransformInit(tf.theta, here, Origin, tf.zoom)
    IN /\ Len(placed) < MaxPlaced
       /\ tf' = T
       /\ placed' = Append(placed, [local |-> line, global |-> Segment_xform(line, T, NoKw)])
       /\ here' = transform(T, Segment_end(line), None)
       /\ UNCHANGED <<arg, estyle, seg, trail, ret, fig>>

InitPlace ==
    /\ \E th \in Thetas, z \in 1..MaxZoom : tf = TransformInit(th, Origin, Origin, z)
    /\ arg = NoArg
    /\ estyle = NoKw
    /\ seg = NoSeg
    /\ trail = <<>>
    /\ ret = <<>>
    /\ fig = <<>>
    /\ placed = <<>>
    /\ here = Origin

NextPlace == \E p \in StraightPaths : Place(p)

SpecPlace == InitPlace /\ [][NextPlace]_vars

(***************************************************************************)
(* Claims about Transform, checked under SpecTransform.                    *)
(***************************************************************************)
\* The last call, when it was tf.transform(pt, ref).
TransformCalls == {i \in 1..Len(ret) : ret[i].op = "transform"}

\* A quarter-turn rotation written out coordinate by coordinate.
QuarterTurns(b, theta) ==
    CASE theta = 0 -> b
      [] theta = 90 -> <<0 - b[2], b[1]>>
      [] theta = 180 -> <<0 - b[1], 0 - b[2]>>
      [] theta = 270 -> <<b[2], 0 - b[1]>>

\* zoom, then rotation, then global shift, of a point that has its local shift
ZoomRotateShift(T, a) ==
    LET b == <<a[1] * T.zoom, a[2] * T.zoom>>
        c == QuarterTurns(b, T.theta)
    IN <<c[1] + T.shift[1], c[2] + T.shift[2]>>

\* C1: transform(pt, ref) returns the point obtained by adding the local
\* shift of the reference mode to pt, multiplying by zoom, rotating by theta
\* about the origin and then adding the global shift, in this order.
C1_FixedOrder ==
    \A i \in TransformCalls :
        LET l == lshift(tf, ret[i].ref)
            a == <<ret[i].pt[1] + l[1], ret[i].pt[2] + l[2]>>
        IN ret[i].val = ZoomRotateShift(tf, a)

\* C1 witness: a call whose result tells the fixed order from the orders that
\* add the global shift before rotating or the local shift after zooming.
C1_Witness ==
    \E i \in TransformCalls :
        /\ tf.zoom > 1
        /\ ret[i].val # transform_ShiftBeforeRotate(tf, ret[i].pt, ret[i].ref)
        /\ ret[i].val # PointAdd(transform(tf, ret[i].pt, "start"), lshift(tf, ret[i].ref))
        /\ ret[i].val # transform(tf, ret[i].pt, "start")

\* C2: transform(pt, ref) applies the full localshift when ref is None, a zero
\* localshift when ref is 'start' and twice the localshift when ref is 'end'.
C2_ReferenceModes ==
    \A i \in TransformCalls :
        LET p == ret[i].pt
            l == tf.localshift
        IN /\ ret[i].ref = None => ret[i].val = ZoomRotateShift(tf, <<p[1] + l[1], p[2] + l[2]>>)
           /\ ret[i].ref = "start" => ret[i].val = ZoomRotateShift(tf, p)
           /\ ret[i].ref = "end" =>
                  ret[i].val = ZoomRotateShift(tf, <<p[1] + 2 * l[1], p[2] + 2 * l[2]>>)

\* C2 witness: an 'end' call under a non-zero local shift and zoom, where the
\* three modes give three different points.
C2_Witness ==
    \E i \in TransformCalls :
        /\ ret[i].ref = "end"
        /\ tf.zoom > 0
        /\ ret[i].val # transform(tf, ret[i].pt, None)
        /\ ret[i].val # transform(tf, ret[i].pt, "start")
        /\ transform(tf, ret[i].pt, None) # transform(tf, ret[i].pt, "start")

ArrayCalls == {i \in 1..Len(ret) : ret[i].op = "transform_array"}

\* C11: transform_array(pts) returns a sequence as long as pts whose i-th
\* element is transform(pts[i]) with the default reference mode: nothing is
\* reordered and repeated points are kept.
C11_Pointwise ==
    \A c \in ArrayCalls :
        /\ Len(ret[c].val) = Len(ret[c].pts)
        /\ \A i \in 1..Len(ret[c].pts) : ret[c].val[i] = transform(tf, ret[c].pts[i], None)

\* a list with a repeated point went through a Transform that rotates, zooms
\* and shifts, and both copies are in the result
C11_Witness ==
    \E c \in ArrayCalls :
        /\ Len(ret[c].pts) >= 3
        /\ ret[c].pts[1] = ret[c].pts[3]
        /\ ret[c].pts[1] # ret[c].pts[2]
        /\ tf.theta = 90 /\ tf.zoom = 2 /\ tf.localshift # Origin /\ tf.shift # Origin
        /\ Len(ret[c].val) = Len(ret[c].pts)
        /\ ret[c].val[1] = ret[c].val[3]
        /\ ret[c].val[1] # ret[c].pts[1]


\* C12: get_bbox on a Line, Polygon, Circle or Arrow, as constructed or
\* after any doreverse/doflip calls, returns a box with xmin <= xmax and
\* ymin <= ymax, and the call changes no field of the primitive.
C12_BoxOrdered ==
    [][GetBBox =>
          /\ LessEq(ret'[1].val[1], ret'[1].val[3])
          /\ LessEq(ret'[1].val[2], ret'[1].val[4])
          /\ seg' = seg]_vars

\* the box of a Line whose first point lies right of and above its last one,
\* taken after a doreverse and a doflip
C12_Witness ==
    /\ seg.kind = "Segment"
    /\ seg.path[1] # gap /\ seg.path[Len(seg.path)] # gap
    /\ seg.path[1][1] > seg.path[Len(seg.path)][1]
    /\ seg.path[1][2] > seg.path[Len(seg.path)][2]
    /\ \E i, j \in 1..Len(trail) : trail[i].op = "doreverse" /\ trail[j].op = "doflip"
    /\ Len(ret) = 1 /\ ret[1].op = "get_bbox"
    /\ ret[1].val = get_bbox(seg)
    /\ ret[1].val[1][1] < ret[1].val[3][1]

\* C13: no xform, draw, get_bbox, transform or transform_array call changes
\* a field of the template primitive or a parameter of the Transform.
C13_InputsUnchanged == [][seg' = seg /\ tf' = tf]_vars

\* xform has returned a copy that differs from the template, under a Transform
\* that rotates, zooms and shifts, and the template has been drawn
C13_Witness ==
    /\ Len(ret) = 1 /\ ret[1].op = "xform"
    /\ ret[1].copy = xform(seg, tf, estyle)
    /\ ret[1].copy # seg
    /\ Len(fig) = 1
    /\ tf.theta = 90 /\ tf.zoom = 2 /\ tf.shift # Origin
    /\ seg.kind = "SegmentArc" /\ seg.color # None

\* C8: no Transform with zoom <= 0 is ever created, and no point is ever
\* transformed with one (construction would have failed with InvalidTransform).
C8_ZoomPositive == \A i \in TransformCalls : tf.zoom > 0

\* C10: the Transform with theta 0, zoom 1, global shift (0,0) and local shift
\* (0,0) is the identity, transform(p, ref) = p for every p and every ref.
C10_Identity ==
    (tf.theta = 0 /\ tf.zoom = 1 /\ tf.shift = Origin /\ tf.localshift = Origin)
        => \A i \in TransformCalls : ret[i].val = ret[i].pt

\* C10 witness: the identity Transform applied to a point off the origin in
\* 'end' mode.
C10_Witness ==
    /\ tf.theta = 0 /\ tf.zoom = 1 /\ tf.shift = Origin /\ tf.localshift = Origin
    /\ \E i \in TransformCalls : ret[i].pt = <<1, 0 - 1>> /\ ret[i].ref = "end"

(***************************************************************************)
(* Claims about doreverse and doflip, checked under SpecMirror.            *)
(***************************************************************************)
\* The primitive as the i-th call of the trail left it.
After(i) == IF i = Len(trail) THEN seg ELSE trail[i + 1].before

\* Two calls in a row, the i-th and the next, of the same operation.
Twice(i, op) ==
    /\ trail[i].op = op
    /\ trail[i + 1].op = op
    /\ trail[i].centerx = trail[i + 1].centerx

\* C5: doreverse(x0) applied twice returns a primitive of any class to the
\* state it had before: coordinates and their order, theta1/theta2, the arrow
\* tag and the reference tag.
C5_ReverseTwice ==
    \A i \in 1..(Len(trail) - 1) :
        Twice(i, "doreverse") => After(i + 1) = trail[i].before

\* C5 witness: an Arc with an arrow tag mirrored twice about x = 1, after an
\* earlier flip; the first mirroring moved its centre and changed its angles.
C5_Witness ==
    /\ Len(trail) = 3
    /\ trail[1].op = "doflip"
    /\ Twice(2, "doreverse")
    /\ trail[2].centerx = 1
    /\ seg.kind = "SegmentArc"
    /\ seg.arrow = "cw"
    /\ trail[3].before.arrow = "ccw"
    /\ trail[3].before.center # seg.center
    /\ trail[3].before.theta1 # seg.theta1

\* C6: doflip applied twice returns a primitive of any class to the state it
\* had before: coordinates and their order, theta1/theta2, the arrow tag and
\* the reference tag.
C6_FlipTwice ==
    \A i \in 1..(Len(trail) - 1) :
        Twice(i, "doflip") => After(i + 1) = trail[i].before

\* C6 witness: an Arc with an arrow tag and a centre off the x axis flipped
\* twice, after an earlier mirroring.
C6_Witness ==
    /\ Len(trail) = 3
    /\ trail[1].op = "doreverse"
    /\ Twice(2, "doflip")
    /\ seg.kind = "SegmentArc"
    /\ seg.arrow = "ccw"
    /\ trail[3].before.arrow = "cw"
    /\ trail[3].before.center # seg.center
    /\ trail[3].before.theta1 # seg.theta1

(***************************************************************************)
(* Claims about xform and draw, checked under SpecDraw and SpecFill.       *)
(***************************************************************************)
XformCalls == {i \in 1..Len(ret) : ret[i].op = "xform"}

\* C3: the copy xform returns carries the primitive's own value of every
\* style attribute on which the primitive has one; the passed style is used
\* only where the primitive's value is unset.
C3_OwnValueWins ==
    \A i \in XformCalls :
        \A k \in StyleKeys \cap DOMAIN seg :
            seg[k] # None => ret[i].copy[k] = seg[k]

\* The fill requested of a draw: the primitive's, else the passed style's.
RequestedFill ==
    IF seg.fill # None THEN seg.fill
    ELSE IF estyle["fill"] # Absent THEN estyle["fill"] ELSE None

\* Some point occurs twice in the path.
RepeatedPoint(path) ==
    LET at == {i \in 1..Len(path) : path[i] # gap}
    IN Cardinality({path[i] : i \in at}) # Cardinality(at)

\* C4: Segment.draw with a fill requested passes no fill to the surface when
\* the transformed path has no repeated point, and passes the fill (the
\* resolved color when the fill is True) when it has one.
C4_FillOnlyClosed ==
    \A i \in 1..Len(fig) :
        (fig[i].fn = "plot" /\ Truthy(RequestedFill)) =>
            IF RepeatedPoint(fig[i].path)
            THEN /\ fig[i].fill # None
                 /\ fig[i].fill = IF RequestedFill = "True" THEN fig[i].color
                                  ELSE RequestedFill
            ELSE fig[i].fill = None

\* C4 witness: the closed path (0,0),(1,0),(1,1),(0,0) drawn in place with
\* fill True and the passed color is filled with that color.
C4_Witness ==
    /\ seg.kind = "Segment"
    /\ seg.path = <<Origin, <<1, 0>>, <<1, 1>>, Origin>>
    /\ seg.fill = "True"
    /\ estyle["color"] = "green"
    /\ tf = TransformInit(0, Origin, Origin, 1)
    /\ Len(fig) = 1
    /\ fig[1].path = seg.path
    /\ fig[1].fill = "green"

\* C9: no draw-arrow call with a zero-length vector reaches the surface (an
\* Arrow whose tail and head coincide fails with DegenerateGeometry when it
\* is constructed or placed).
C9_NoZeroLengthArrow ==
    \A i \in 1..Len(fig) :
        fig[i].fn = "arrow" => <<fig[i].dx, fig[i].dy>> # <<0, 0>>

(***************************************************************************)
(* Claims about placement, checked under SpecPlace.                        *)
(***************************************************************************)
\* C7: lines placed in sequence are contiguous, each starting at the point
\* where the one before ends; two lines of local path (0,0),(1,0) placed from
\* (0,0) with theta 0 and zoom 1 run (0,0)->(1,0) and (1,0)->(2,0).
C7_Contiguous ==
    /\ \A i \in 1..(Len(placed) - 1) :
           placed[i + 1].global.path[1] = placed[i].global.path[Len(placed[i].global.path)]
    /\ (/\ Len(placed) >= 2
        /\ tf.theta = 0
        /\ tf.zoom = 1
        /\ placed[1].local.path = <<Origin, <<1, 0>>>>
        /\ placed[2].local.path = <<Origin, <<1, 0>>>>)
           => /\ placed[1].global.path = <<<<0, 0>>, <<1, 0>>>>
              /\ placed[2].global.path = <<<<1, 0>>, <<2, 0>>>>

\* C7 witness: two unit lines placed with theta 0 and zoom 1.
C7_Witness ==
    /\ Len(placed) = 2
    /\ tf.theta = 0
    /\ tf.zoom = 1
    /\ placed[1].local.path = <<Origin, <<1, 0>>>>
    /\ placed[2].local.path = <<Origin, <<1, 0>>>>
    /\ here = <<2, 0>>

\* The calls of op in the trail
Calls(op) == {i \in 1..Len(trail) : trail[i].op = op}

\* p with its x-offset from axisX negated and its y kept; a gap marker stays one
Reflected(p, axisX) == IF p = gap THEN gap ELSE <<(2 * axisX) - p[1], p[2]>>

\* p with its y negated and its x kept
Negated(p) == IF p = gap THEN gap ELSE <<p[1], 0 - p[2]>>

\* The ordered points of a Line or Polygon
PointsOf(s) == IF s.kind = "Segment" THEN s.path ELSE s.verts

\* C14: doreverse(axisX) on a Line or Polygon with points p_1..p_n leaves n
\* points q_i = mirror(p_(n+1-i)): every point reflected about x = axisX and
\* the order reversed.
C14_ReverseMirrors ==
    \A c \in Calls("doreverse") :
        trail[c].before.kind \in {"Segment", "SegmentPoly"} =>
            LET p == PointsOf(trail[c].before)
                q == PointsOf(After(c))
            IN /\ Len(q) = Len(p)
               /\ \A i \in 1..Len(p) :
                      q[i] = Reflected(p[(Len(p) + 1) - i], trail[c].centerx)

\* a Line of three different points, not symmetric about the axis, mirrored
\* once about x = 1
C14_Witness ==
    /\ Len(trail) = 1 /\ trail[1].op = "doreverse" /\ trail[1].centerx = 1
    /\ seg.kind = "Segment" /\ Len(seg.path) = 3
    /\ trail[1].before.path = <<Origin, <<1, 0>>, <<1, 1>>>>
    /\ seg.path = <<<<1, 1>>, <<1, 0>>, <<2, 0>>>>

\* C15: doreverse on an Arc sets (theta1, theta2) to (180 - theta2,
\* 180 - theta1), mirrors the center about the axis and swaps the arrow tag
\* cw <-> ccw, an absent tag staying absent.
C15_ArcReverse ==
    \A c \in Calls("doreverse") :
        trail[c].before.kind = "SegmentArc" =>
            LET b == trail[c].before
                a == After(c)
            IN /\ a.theta1 = 180 - b.theta2
               /\ a.theta2 = 180 - b.theta1
               /\ a.center = Reflected(b.center, trail[c].centerx)
               /\ a.arrow = (CASE b.arrow = "cw" -> "ccw" [] b.arrow = "ccw" -> "cw"
                               [] b.arrow = None -> None)

\* an Arc from 270 to 90 degrees with a cw arrow, centred off the axis,
\* mirrored about x = 1
C15_Witness ==
    /\ Len(trail) = 1 /\ trail[1].op = "doreverse" /\ trail[1].centerx = 1
    /\ trail[1].before.kind = "SegmentArc"
    /\ trail[1].before.theta1 = 270 /\ trail[1].before.theta2 = 90
    /\ trail[1].before.arrow = "cw" /\ trail[1].before.center = <<0, 1>>
    /\ seg.theta1 = 90 /\ seg.theta2 = 0 - 90
    /\ seg.arrow = "ccw" /\ seg.center = <<2, 1>>

\* The defining points of a primitive, in order
DefiningPoints(s) ==
    CASE s.kind = "Segment" -> s.path
      [] s.kind = "SegmentPoly" -> s.verts
      [] s.kind = "SegmentText" -> <<s.xy>>
      [] s.kind = "SegmentCircle" -> <<s.center>>
      [] s.kind = "SegmentArrow" -> <<s.tail, s.head>>
      [] s.kind = "SegmentArc" -> <<s.center>>

\* C16: doflip maps every defining point (x, y) of a primitive to (x, -y),
\* the order of the points unchanged; on an Arc it also sets (theta1, theta2)
\* to (-theta2, -theta1) and swaps the arrow tag cw <-> ccw.
C16_FlipNegatesY ==
    \A c \in Calls("doflip") :
        LET b == trail[c].before
            a == After(c)
            p == DefiningPoints(b)
            q == DefiningPoints(a)
        IN /\ a.kind = b.kind
           /\ Len(q) = Len(p)
           /\ \A i \in 1..Len(p) : q[i] = Negated(p[i])
           /\ b.kind = "SegmentArc" =>
                  /\ a.theta1 = 0 - b.theta2
                  /\ a.theta2 = 0 - b.theta1
                  /\ a.arrow = (CASE b.arrow = "cw" -> "ccw" [] b.arrow = "ccw" -> "cw"
                                  [] b.arrow = None -> None)

\* a Line through three different points, one of them above the x-axis,
\* flipped once
C16_Witness ==
    /\ Len(trail) = 1 /\ trail[1].op = "doflip"
    /\ seg.kind = "Segment"
    /\ trail[1].before.path = <<<<1, 1>>, <<1, 0>>, Origin>>
    /\ seg.path = <<<<1, 0 - 1>>, <<1, 0>>, Origin>>

\* The primitive as it was constructed
Constructed == IF trail = <<>> THEN seg ELSE trail[1].before

\* C20: after any sequence of doreverse and doflip calls on an Arc the sweep
\* theta2 - theta1 is the one it was constructed with, and width, height and
\* angle are unchanged: only center, theta1, theta2 and the arrow tag change.
C20_SweepKept ==
    seg.kind = "SegmentArc" =>
        /\ seg.theta2 - seg.theta1 = Constructed.theta2 - Constructed.theta1
        /\ seg.width = Constructed.width
        /\ seg.height = Constructed.height
        /\ seg.angle = Constructed.angle
        /\ \A k \in DOMAIN seg \ {"center", "theta1", "theta2", "arrow"} :
               seg[k] = Constructed[k]

\* an Arc constructed from 35 to -35 degrees that was mirrored and flipped:
\* both angles, the center and the arrow tag differ from the constructed ones
C20_Witness ==
    /\ seg.kind = "SegmentArc"
    /\ Len(trail) = MaxOps
    /\ Calls("doreverse") # {} /\ Calls("doflip") # {}
    /\ Constructed.theta1 = 35 /\ Constructed.theta2 = 0 - 35
    /\ seg.theta1 # Constructed.theta1 /\ seg.theta2 # Constructed.theta2
    /\ seg.center # Constructed.center
    /\ seg.arrow # Constructed.arrow
    /\ seg.theta2 - seg.theta1 = 0 - 70

\* The endpoint-reference tag a primitive carries, None where it has none
TagOf(s) == IF "endref" \in DOMAIN s THEN s.endref ELSE None

\* C17: a Circle or Arc constructed with an endpoint-reference tag carries
\* it; doreverse swaps start <-> end and doflip leaves the tag, so that after
\* any calls the tag is the constructed one when the number of doreverse
\* calls is even and the swapped one when it is odd.
C17_TagParity ==
    seg.kind \in {"SegmentCircle", "SegmentArc"} =>
        TagOf(seg) = IF Cardinality(Calls("doreverse")) % 2 = 0
                     THEN arg.ref
                     ELSE (CASE arg.ref = "start" -> "end" [] arg.ref = "end" -> "start"
                             [] arg.ref = None -> None)

\* The style attributes resolved one by one; the fill also depends on the
\* path being closed
ResolvedKeys == StyleKeys \ {"fill"}

\* The built-in default of a style attribute for a class of primitive
BuiltIn(kind, k) ==
    CASE k = "lw" -> "2"
      [] k = "capstyle" -> "round"
      [] k = "joinstyle" -> "round"
      [] k = "color" -> "black"
      [] k = "ls" -> "-"
      [] k = "zorder" -> (CASE kind = "Segment" -> "2"
                            [] kind = "SegmentText" -> "3"
                            [] OTHER -> "1")

\* The first of own, passed and default that is set
FirstNonNull(own, passed, default) ==
    IF own # None THEN own
    ELSE IF passed \notin {Absent, None} THEN passed
    ELSE default

\* C18: draw resolves each style attribute as the first that is set of the
\* primitive's own value, the passed style's value and the built-in default;
\* an own value is used as it is even when it is falsy, such as lw = 0.
C18_FirstNonNullWins ==
    \A i \in 1..Len(fig) :
        \A k \in (ResolvedKeys \cap DOMAIN seg) \cap DOMAIN fig[i] :
            fig[i][k] = FirstNonNull(seg[k], estyle[k], BuiltIn(seg.kind, k))

\* C19: drawing the copy P.xform(T) with the identity Transform issues the
\* surface call that drawing P with T issues: the same coordinates, circle
\* radius, arc width and height, arc arrow tag and polygon closed flag.
C19_CopyDrawsAlike == [][DrawCopy => fig'[1] = draw(seg, tf, estyle)]_vars

\* Two angles in degrees that denote the same direction
SameAngle(a, b) == (a - b) % 360 = 0

\* Two primitives in the same state: every field equal, the angles of an Arc
\* equal modulo 360 degrees
SameState(a, b) ==
    /\ a.kind = b.kind
    /\ IF a.kind = "SegmentArc"
       THEN /\ \A k \in DOMAIN a \ {"theta1", "theta2"} : a[k] = b[k]
            /\ SameAngle(a.theta1, b.theta1)
            /\ SameAngle(a.theta2, b.theta2)
       ELSE a = b

\* The i-th call and the next are a doreverse and a doflip, in either order
MirrorPair(i) ==
    /\ i < Len(trail)
    /\ {trail[i].op, trail[i + 1].op} = {"doreverse", "doflip"}

\* The axis of the doreverse of the pair starting at the i-th call
PairAxis(i) ==
    IF trail[i].op = "doreverse" THEN trail[i].centerx ELSE trail[i + 1].centerx

\* The primitive the pair starting at the i-th call would have left had its
\* two calls been made in the other order
OtherOrder(i) ==
    IF trail[i].op = "doreverse"
    THEN doreverse(doflip(trail[i].before), PairAxis(i))
    ELSE doflip(doreverse(trail[i].before, PairAxis(i)))

\* C21: doreverse(x0) and doflip commute on every primitive: the two calls in
\* either order leave the same coordinates, point order, arrow tag and
\* reference tag, and on an Arc theta1 and theta2 that are equal modulo 360.
C21_MirrorsCommute ==
    \A i \in 1..Len(trail) :
        MirrorPair(i) => SameState(After(i + 1), OtherOrder(i))

\* an Arc with a cw arrow, centred off the axis and off the x-axis, mirrored
\* about x = 1 and then flipped: the other order ends at the same center and
\* tag with both angles a full turn away
C21_Witness ==
    /\ Len(trail) = 2
    /\ trail[1].op = "doreverse" /\ trail[1].centerx = 1 /\ trail[2].op = "doflip"
    /\ trail[1].before.kind = "SegmentArc"
    /\ trail[1].before.arrow = "cw"
    /\ trail[1].before.center = <<0, 1>>
    /\ seg.center = <<2, 0 - 1>>
    /\ seg.arrow = "cw"
    /\ OtherOrder(1).center = seg.center
    /\ OtherOrder(1).theta1 = seg.theta1 + 360
    /\ OtherOrder(1).theta2 = seg.theta2 + 360
====
